---- MODULE Spec2Model ----
(***************************************************************************)
(* StockFlow case study: the transactional product-provisioning handler    *)
(* (POST /api/products) and the low-stock alert query                      *)
(* (GET /api/companies/:companyId/alerts/low-stock) over one relational    *)
(* store.  Every `await` of a handler is one step; the store gives         *)
(* read-committed visibility, a unique index on products.sku and foreign   *)
(* keys from inventory to products and warehouses.                         *)
(***************************************************************************)
EXTENDS Integers, Sequences, FiniteSets, TLC

\* Number of provisioning requests the model lets arrive.
MaxReqs == 2

\* const THRESHOLD = 20;
THRESHOLD == 20

Reqs == 1..MaxReqs

(***************************************************************************)
(* The relations the handlers never write.                                 *)
(***************************************************************************)
Warehouses ==
    { [id |-> 1, company_id |-> 1, name |-> "W1"],
      [id |-> 2, company_id |-> 2, name |-> "W2"] }

Suppliers ==
    { [id |-> 1, name |-> "Acme", email |-> "a@acme.com"],
      [id |-> 2, name |-> "Bolt", email |-> "b@bolt.com"] }

\* Company 3 owns nothing (a company identifier that does not exist).
CompanyIds == {1, 2, 3}

(***************************************************************************)
(* Request bodies.  A field that is not sent is not in the record's        *)
(* DOMAIN; "" and 0 are the falsy values of a field that is sent.          *)
(***************************************************************************)
FullBodies ==
    [name : {"Widget2"}, sku : {"W-1", "S1"}, price : {10},
     warehouse_id : {1, 9}, initial_quantity : {-1, 0, 5, 20}]

NoQuantityBodies ==
    [name : {"Widget2"}, sku : {"W-1", "S1"}, price : {10},
     warehouse_id : {1, 9}]

IncompleteBodies ==
    { [name |-> "", sku |-> "S1", price |-> 10, warehouse_id |-> 1],
      [name |-> "Widget2", sku |-> "", price |-> 10, warehouse_id |-> 1],
      [name |-> "Widget2", sku |-> "S1", price |-> 0, warehouse_id |-> 1],
      [name |-> "Widget2", sku |-> "S1", price |-> 10, warehouse_id |-> 0],
      [sku |-> "S1", price |-> 10, initial_quantity |-> 5] }

Bodies == FullBodies \cup NoQuantityBodies \cup IncompleteBodies

\* The bodies that decide the outcome of the transactional write: a used or an
\* unused sku, an existing or a non-existent warehouse, initial_quantity given
\* or not, and a body that fails validation.
CoreBodies ==
    [name : {"Widget2"}, sku : {"W-1", "S1"}, price : {10},
     warehouse_id : {1, 9}, initial_quantity : {5}]
    \cup NoQuantityBodies
    \cup { [sku |-> "S1", price |-> 10, initial_quantity |-> 5] }

VARIABLES
    pc,          \* where each handler invocation stands
    req,         \* req.body of each invocation
    tx,          \* state of the transaction t of each invocation
    txWrites,    \* rows inserted under t and not yet committed
    newProduct,  \* the rows Product.create returned (none or one)
    error,       \* the error caught by the handler's catch block
    responses,   \* the HTTP responses the handler sent
    products,    \* committed rows of products
    inventory,   \* committed rows of inventory
    nextId,      \* the products.id sequence
    overlapped,  \* pairs of invocations whose transactions were open together
    queryResp    \* the response of the last low-stock query

vars == <<pc, req, tx, txWrites, newProduct, error, responses, products,
          inventory, nextId, overlapped, queryResp>>

handlerVars == <<pc, req, tx, txWrites, newProduct, error, responses,
                 nextId, overlapped>>

NoWrites == [products |-> {}, inventory |-> {}]

\* Store content of the scenario: Widget / W-1 / 5 units in W1 / supplier Acme.
SeedProducts ==
    { [id |-> 1, name |-> "Widget", sku |-> "W-1", price |-> 10, supplier_id |-> 1] }

SeedInventory ==
    { [product_id |-> 1, warehouse_id |-> 1, quantity |-> 5] }

HandlersIdle ==
    /\ pc = [p \in Reqs |-> "idle"]
    /\ req = [p \in Reqs |-> [sku |-> ""]]
    /\ tx = [p \in Reqs |-> "none"]
    /\ txWrites = [p \in Reqs |-> NoWrites]
    /\ newProduct = [p \in Reqs |-> {}]
    /\ error = [p \in Reqs |-> "none"]
    /\ responses = [p \in Reqs |-> <<>>]
    /\ overlapped = {}
    /\ queryResp = <<>>

Init ==
    /\ HandlersIdle
    /\ products = SeedProducts
    /\ inventory = SeedInventory
    /\ nextId = 2

(***************************************************************************)
(* POST /api/products                                                      *)
(***************************************************************************)

\* !name, !sku on a text field; !price, !warehouse_id on a numeric field.
MissingText(body, f) == f \notin DOMAIN body \/ body[f] = ""
MissingNumber(body, f) == f \notin DOMAIN body \/ body[f] = 0

\* if (!name || !sku || !price || !warehouse_id)
MissingRequired(body) ==
    \/ MissingText(body, "name")
    \/ MissingText(body, "sku")
    \/ MissingNumber(body, "price")
    \/ MissingNumber(body, "warehouse_id")

\* initial_quantity || 0
QuantityOrZero(body) ==
    IF MissingNumber(body, "initial_quantity") THEN 0 ELSE body.initial_quantity

\* const t = await sequelize.transaction();  It stands outside the try: when
\* it throws, the handler's promise rejects and the handler sends nothing.
BeginTransaction(p, bodies) ==
    /\ pc[p] = "idle"
    /\ \A q \in Reqs : q < p => pc[q] /= "idle"
    /\ \E body \in bodies :
         /\ req' = [req EXCEPT ![p] = body]
         /\ \/ /\ tx' = [tx EXCEPT ![p] = "open"]
               /\ pc' = [pc EXCEPT ![p] = "validate"]
               /\ overlapped' = overlapped \cup
                                  { {p, q} : q \in { r \in Reqs : tx[r] = "open" } }
            \/ /\ pc' = [pc EXCEPT ![p] = "rejected"]
               /\ UNCHANGED <<tx, overlapped>>
    /\ UNCHANGED <<txWrites, newProduct, error, responses, products, inventory,
                   nextId, queryResp>>

\* Validation: a 400 is returned from inside the try, past commit and rollback.
Validate(p) ==
    /\ pc[p] = "validate"
    /\ IF MissingRequired(req[p])
         THEN /\ responses' = [responses EXCEPT ![p] = Append(@, [status |-> 400])]
              /\ pc' = [pc EXCEPT ![p] = "done"]
         ELSE /\ pc' = [pc EXCEPT ![p] = "createProduct"]
              /\ UNCHANGED responses
    /\ UNCHANGED <<req, tx, txWrites, newProduct, error, products, inventory,
                   nextId, overlapped, queryResp>>

\* Another open transaction holds an uncommitted row with this sku: the unique
\* index makes the insert wait until that transaction ends.
SkuLocked(p, sku) ==
    \E q \in Reqs \ {p} :
        tx[q] = "open" /\ \E r \in txWrites[q].products : r.sku = sku

\* The unique index on products.sku rejects the insert (duplicate SKU).
SkuConflictIgnored(p, sku) == FALSE

SkuConflict(p, sku) ==
    \E r \in products \cup txWrites[p].products : r.sku = sku

\* The row Product.create({name, sku, price}) inserts: no supplier_id is given.
ProductRow(p) ==
    [id |-> nextId, name |-> req[p].name, sku |-> req[p].sku, price |-> req[p].price]

\* Product.create without { transaction: t }: the row is committed at once.
ProductCreateAutocommit(p) ==
    /\ pc[p] = "createProduct"
    /\ ~SkuLocked(p, req[p].sku)
    /\ \/ /\ ~SkuConflict(p, req[p].sku)
          /\ products' = products \cup {ProductRow(p)}
          /\ newProduct' = [newProduct EXCEPT ![p] = {ProductRow(p)}]
          /\ nextId' = nextId + 1
          /\ pc' = [pc EXCEPT ![p] = "createInventory"]
          /\ UNCHANGED error
       \/ /\ SkuConflict(p, req[p].sku)
          /\ error' = [error EXCEPT ![p] = "unique"]
          /\ nextId' = nextId + 1
          /\ pc' = [pc EXCEPT ![p] = "rollback"]
          /\ UNCHANGED <<products, newProduct>>
       \/ /\ error' = [error EXCEPT ![p] = "fault"]
          /\ pc' = [pc EXCEPT ![p] = "rollback"]
          /\ UNCHANGED <<products, newProduct, nextId>>
    /\ UNCHANGED <<req, tx, txWrites, responses, inventory, overlapped, queryResp>>

\* const newProduct = await Product.create({name, sku, price}, {transaction: t});
ProductCreate(p) ==
    /\ pc[p] = "createProduct"
    /\ ~SkuLocked(p, req[p].sku)
    /\ \/ /\ ~SkuConflict(p, req[p].sku)
          /\ txWrites' = [txWrites EXCEPT ![p].products = @ \cup {ProductRow(p)}]
          /\ newProduct' = [newProduct EXCEPT ![p] = {ProductRow(p)}]
          /\ nextId' = nextId + 1
          /\ pc' = [pc EXCEPT ![p] = "createInventory"]
          /\ UNCHANGED error
       \/ /\ SkuConflict(p, req[p].sku)
          /\ error' = [error EXCEPT ![p] = "unique"]
          /\ nextId' = nextId + 1
          /\ pc' = [pc EXCEPT ![p] = "rollback"]
          /\ UNCHANGED <<txWrites, newProduct>>
       \/ /\ error' = [error EXCEPT ![p] = "fault"]
          /\ pc' = [pc EXCEPT ![p] = "rollback"]
          /\ UNCHANGED <<txWrites, newProduct, nextId>>
    /\ UNCHANGED <<req, tx, responses, products, inventory, overlapped, queryResp>>

\* The id of the row Product.create returned.
NewProductId(p) == (CHOOSE r \in newProduct[p] : TRUE).id

\* Inventory row linked to the request's warehouse instead of the new product.
InventoryRowMislinked(p) ==
    [product_id |-> req[p].warehouse_id, warehouse_id |-> req[p].warehouse_id,
     quantity |-> QuantityOrZero(req[p])]

\* { productId: newProduct.id, warehouseId: warehouse_id,
\*   quantity: initial_quantity || 0 }
InventoryRow(p) ==
    [product_id |-> NewProductId(p), warehouse_id |-> req[p].warehouse_id,
     quantity |-> QuantityOrZero(req[p])]

\* inventory.warehouse_id references warehouses.id
WarehouseExists(id) == \E w \in Warehouses : w.id = id

\* await Inventory.create({...}, { transaction: t });
InventoryCreate(p) ==
    /\ pc[p] = "createInventory"
    /\ \/ /\ WarehouseExists(req[p].warehouse_id)
          /\ txWrites' = [txWrites EXCEPT ![p].inventory = @ \cup {InventoryRow(p)}]
          /\ pc' = [pc EXCEPT ![p] = "commit"]
          /\ UNCHANGED error
       \/ /\ ~WarehouseExists(req[p].warehouse_id)
          /\ error' = [error EXCEPT ![p] = "fk"]
          /\ pc' = [pc EXCEPT ![p] = "rollback"]
          /\ UNCHANGED txWrites
       \/ /\ error' = [error EXCEPT ![p] = "fault"]
          /\ pc' = [pc EXCEPT ![p] = "rollback"]
          /\ UNCHANGED txWrites
    /\ UNCHANGED <<req, tx, newProduct, responses, products, inventory, nextId,
                   overlapped, queryResp>>

\* await t.commit(); return res.status(201).json({message, product_id})
Commit(p) ==
    /\ pc[p] = "commit"
    /\ \/ /\ products' = products \cup txWrites[p].products
          /\ inventory' = inventory \cup txWrites[p].inventory
          /\ txWrites' = [txWrites EXCEPT ![p] = NoWrites]
          /\ tx' = [tx EXCEPT ![p] = "committed"]
          /\ responses' = [responses EXCEPT ![p] =
                 Append(@, [status |-> 201, product_id |-> NewProductId(p)])]
          /\ pc' = [pc EXCEPT ![p] = "done"]
          /\ UNCHANGED error
       \/ /\ error' = [error EXCEPT ![p] = "fault"]
          /\ pc' = [pc EXCEPT ![p] = "rollback"]
          /\ UNCHANGED <<products, inventory, txWrites, tx, responses>>
    /\ UNCHANGED <<req, newProduct, nextId, overlapped, queryResp>>

\* A catch block that commits what the transaction holds instead of undoing it.
RollbackAsCommit(p) ==
    /\ pc[p] = "rollback"
    /\ \/ /\ products' = products \cup txWrites[p].products
          /\ inventory' = inventory \cup txWrites[p].inventory
          /\ txWrites' = [txWrites EXCEPT ![p] = NoWrites]
          /\ tx' = [tx EXCEPT ![p] = "committed"]
          /\ responses' = [responses EXCEPT ![p] = Append(@, [status |-> 500])]
          /\ pc' = [pc EXCEPT ![p] = "done"]
       \/ /\ pc' = [pc EXCEPT ![p] = "rejected"]
          /\ UNCHANGED <<products, inventory, txWrites, tx, responses>>
    /\ UNCHANGED <<req, newProduct, error, nextId, overlapped, queryResp>>

\* catch (error) { await t.rollback(); ...; return res.status(500).json(...) }
\* When t.rollback() itself throws, the exception leaves the catch block.
Rollback(p) ==
    /\ pc[p] = "rollback"
    /\ \/ /\ txWrites' = [txWrites EXCEPT ![p] = NoWrites]
          /\ tx' = [tx EXCEPT ![p] = "rolledback"]
          /\ responses' = [responses EXCEPT ![p] = Append(@, [status |-> 500])]
          /\ pc' = [pc EXCEPT ![p] = "done"]
       \/ /\ pc' = [pc EXCEPT ![p] = "rejected"]
          /\ UNCHANGED <<txWrites, tx, responses>>
    /\ UNCHANGED <<req, newProduct, error, products, inventory, nextId,
                   overlapped, queryResp>>

(***************************************************************************)
(* GET /api/companies/:companyId/alerts/low-stock                          *)
(***************************************************************************)

\* SELECT p.id, p.name, p.sku, w.id, w.name, i.quantity, s.id, s.name, s.email
JoinedRow(p, i, w, s) ==
    [id |-> p.id, name |-> p.name, sku |-> p.sku, warehouse_id |-> w.id,
     warehouse_name |-> w.name, quantity |-> i.quantity, supplier_id |-> s.id,
     supplier_name |-> s.name, email |-> s.email]

\* FROM products p JOIN inventory i JOIN warehouses w JOIN suppliers s
\* WHERE w.company_id = ?
JoinResult(companyId) ==
    { JoinedRow(t[1], t[2], t[3], t[4]) :
        t \in { u \in products \X inventory \X Warehouses \X Suppliers :
                  /\ u[1].id = u[2].product_id
                  /\ u[2].warehouse_id = u[3].id
                  /\ "supplier_id" \in DOMAIN u[1]
                  /\ u[1].supplier_id = u[4].id
                  /\ u[3].company_id = companyId } }

\* The orders in which the store may return a set of rows.
Orderings(S) ==
    { f \in [1..Cardinality(S) -> S] :
        \A a, b \in 1..Cardinality(S) : a /= b => f[a] /= f[b] }

\* A filter that lets a quantity equal to the threshold through.
IsLowStockInclusive(item) == item.quantity <= THRESHOLD

\* if (item.quantity < THRESHOLD)
IsLowStock(item) == item.quantity < THRESHOLD

\* alerts.push({...})
Alert(item) ==
    [product_id |-> item.id, product_name |-> item.name, sku |-> item.sku,
     warehouse_name |-> item.warehouse_name, current_stock |-> item.quantity,
     supplier |-> [name |-> item.supplier_name, contact_email |-> item.email]]

\* for (const item of products) { ... }
RECURSIVE CollectAlerts(_, _)
CollectAlerts(items, alerts) ==
    IF items = <<>>
      THEN alerts
      ELSE CollectAlerts(Tail(items),
                         IF IsLowStock(Head(items))
                           THEN Append(alerts, Alert(Head(items)))
                           ELSE alerts)

\* The whole handler: one read of the committed store, then the loop, then
\* res.json({alerts, total_alerts}); a failed query answers 500.
LowStockQuery(companyId) ==
    /\ \/ \E rows \in Orderings(JoinResult(companyId)) :
            LET alerts == CollectAlerts(rows, <<>>) IN
              queryResp' = << [status |-> 200, companyId |-> companyId,
                               alerts |-> alerts, total_alerts |-> Len(alerts)] >>
       \/ queryResp' = << [status |-> 500] >>
    /\ UNCHANGED <<products, inventory>>
    /\ UNCHANGED handlerVars

\* Provisioning calls alone, over the bodies that decide the transactional
\* write.  The committed relations are what a reader sees at any moment.
Next ==
    \/ \E p \in Reqs : BeginTransaction(p, CoreBodies)
    \/ \E p \in Reqs : Validate(p)
    \/ \E p \in Reqs : ProductCreate(p)
    \/ \E p \in Reqs : InventoryCreate(p)
    \/ \E p \in Reqs : Commit(p)
    \/ \E p \in Reqs : Rollback(p)

Spec == Init /\ [][Next]_vars

\* Provisioning calls with every body, interleaved with low-stock queries.
NextAlerts ==
    \/ \E p \in Reqs : BeginTransaction(p, Bodies)
    \/ \E p \in Reqs : Validate(p)
    \/ \E p \in Reqs : ProductCreate(p)
    \/ \E p \in Reqs : InventoryCreate(p)
    \/ \E p \in Reqs : Commit(p)
    \/ \E p \in Reqs : Rollback(p)
    \/ \E c \in CompanyIds : LowStockQuery(c)

SpecAlerts == Init /\ [][NextAlerts]_vars

(***************************************************************************)
(* The low-stock query over arbitrary store contents: products with and    *)
(* without a supplier, each stocked or not in each warehouse.              *)
(***************************************************************************)
CatalogProducts ==
    { [id |-> 1, name |-> "Widget", sku |-> "W-1", price |-> 10, supplier_id |-> 1],
      [id |-> 2, name |-> "Gadget", sku |-> "G-2", price |-> 7, supplier_id |-> 2],
      [id |-> 3, name |-> "Widget2", sku |-> "S1", price |-> 10] }

StockLevels == {0, 19, 20}

InitQuery ==
    /\ HandlersIdle
    /\ nextId = 4
    /\ \E P \in SUBSET CatalogProducts :
         /\ products = P
         /\ \E stock \in [ { r.id : r \in P } \X { w.id : w \in Warehouses } ->
                             {{}} \cup { {q} : q \in StockLevels } ] :
              inventory = UNION { { [product_id |-> k[1], warehouse_id |-> k[2],
                                     quantity |-> q] : q \in stock[k] } :
                                  k \in DOMAIN stock }

NextQuery == \E c \in CompanyIds : LowStockQuery(c)

SpecQuery == InitQuery /\ [][NextQuery]_vars

(***************************************************************************)
(* Properties                                                              *)
(***************************************************************************)

\* The response the handler of p sent with the given status, if any.
Sent(p, status) == \E k \in 1..Len(responses[p]) : responses[p][k].status = status

Ended(p) == pc[p] \in {"done", "rejected"}

\* C1: every committed Product row has a committed Inventory row for it: a
\* reader of the committed store never sees a product without its inventory.
C1_NoOrphanProduct ==
    \A r \in products : \E i \in inventory : i.product_id = r.id

\* C1 witness: a call stands between its two inserts (product inserted under
\* the transaction, inventory not yet) while the store can be read.
C1_Witness ==
    \E p \in Reqs :
        /\ pc[p] = "createInventory"
        /\ txWrites[p].products /= {}
        /\ txWrites[p].inventory = {}
        /\ \A r \in txWrites[p].products : r \notin products

\* C2: no step of a call other than its successful commit changes the committed
\* relations, and when a call that passed validation ends in a store failure
\* (duplicate sku, non-existent warehouse) the committed relations are what
\* they were and hold no row the call inserted.
C2_FailureLeavesStoreUnchanged ==
    [][\A p \in Reqs :
         /\ (pc[p] \in {"createProduct", "createInventory", "rollback"}
               /\ pc'[p] /= pc[p])
              => (products' = products /\ inventory' = inventory)
         /\ (pc[p] = "rollback" /\ Ended(p)' /\ error[p] \in {"unique", "fk"})
              => /\ \A r \in newProduct[p] :
                      /\ r \notin products'
                      /\ \A i \in inventory' : i.product_id /= r.id
                 /\ Sent(p, 500)' => txWrites'[p] = NoWrites]_vars

\* C2 witness: one call failed on a non-existent warehouse after its product
\* insert, another on a duplicate sku; both were answered 500.
C2_Witness ==
    \E p, q \in Reqs :
        /\ pc[p] = "done" /\ error[p] = "fk" /\ newProduct[p] /= {}
        /\ Sent(p, 500) /\ tx[p] = "rolledback"
        /\ pc[q] = "done" /\ error[q] = "unique" /\ Sent(q, 500)

\* A call that passes validation, names an existing warehouse and meets no
\* store fault.
CleanCall(p) ==
    /\ pc[p] /= "idle"
    /\ pc[p] /= "rejected"
    /\ ~MissingRequired(req[p])
    /\ WarehouseExists(req[p].warehouse_id)
    /\ error[p] /= "fault"

SameSkuCleanCalls(sku) == { p \in Reqs : CleanCall(p) /\ req[p].sku = sku }

SeedSkus == { r.sku : r \in SeedProducts }

\* C3 (amended): among the calls that share a sku no product had before, pass
\* validation, name an existing warehouse and meet no store fault, once all
\* have ended exactly one has committed and answered 201 and every other was
\* refused by the unique index and answered 500; no two committed products
\* ever share a sku, and the rows of a call answered 201 stay committed.
C3_OneWinnerPerSku ==
    /\ \A r1, r2 \in products : r1.sku = r2.sku => r1 = r2
    /\ \A p \in Reqs : Sent(p, 201) =>
         /\ newProduct[p] \subseteq products
         /\ InventoryRow(p) \in inventory
    /\ \A sku \in { req[p].sku : p \in Reqs } \ SeedSkus :
         LET S == SameSkuCleanCalls(sku) IN
           (S /= {} /\ \A p \in S : pc[p] = "done") =>
              /\ Cardinality({ p \in S : Sent(p, 201) }) = 1
              /\ \A p \in S : ~Sent(p, 201) => (Sent(p, 500) /\ error[p] = "unique")

\* C3 witness: two calls with the same new sku whose transactions were open
\* together have both ended, one answered 201 and the other refused as a
\* duplicate.
C3_Witness ==
    \E p, q \in Reqs :
        /\ p /= q /\ {p, q} \in overlapped
        /\ req[p].sku = req[q].sku
        /\ CleanCall(p) /\ CleanCall(q)
        /\ pc[p] = "done" /\ pc[q] = "done"
        /\ Sent(p, 201) /\ Sent(q, 500) /\ error[q] = "unique"

\* C3 as stated: any two calls with the same sku whose transactions overlapped
\* (here: both passed validation and neither met a store fault) end with
\* exactly one 201 and the other refused by the unique index.
C3_AsStated ==
    \A p, q \in Reqs :
        (/\ p /= q /\ {p, q} \in overlapped
         /\ ~MissingRequired(req[p]) /\ ~MissingRequired(req[q])
         /\ req[p].sku = req[q].sku
         /\ pc[p] = "done" /\ pc[q] = "done"
         /\ error[p] /= "fault" /\ error[q] /= "fault")
        => \/ (Sent(p, 201) /\ ~Sent(q, 201) /\ error[q] = "unique")
           \/ (Sent(q, 201) /\ ~Sent(p, 201) /\ error[p] = "unique")

\* C4: the step in which a call answers 201 adds exactly one Product row and
\* exactly one Inventory row to the committed store; the Inventory row names
\* the new Product's id and the request's warehouse_id, and the product_id of
\* the response is that Product's id.
C4_SuccessAddsLinkedPair ==
    [][\A p \in Reqs :
         (~Sent(p, 201) /\ Sent(p, 201)') =>
            /\ Cardinality(products' \ products) = 1
            /\ Cardinality(inventory' \ inventory) = 1
            /\ \A r \in products' \ products :
                 /\ r.sku = req[p].sku /\ r.name = req[p].name
                 /\ r.price = req[p].price
                 /\ \A k \in 1..Len(responses'[p]) : responses'[p][k].product_id = r.id
                 /\ \A i \in inventory' \ inventory :
                      /\ i.product_id = r.id
                      /\ i.warehouse_id = req[p].warehouse_id]_vars

\* C4 witness: a call with a complete body, an unused sku and an existing
\* warehouse was answered 201 and its rows are committed.
C4_Witness ==
    \E p \in Reqs :
        /\ Sent(p, 201) /\ pc[p] = "done"
        /\ req[p].sku \notin SeedSkus /\ WarehouseExists(req[p].warehouse_id)
        /\ \E r \in products : r.id = NewProductId(p)

\* C5: when a handler has sent its response, the transaction it opened is
\* committed or rolled back.
C5_TransactionResolved ==
    \A p \in Reqs :
        responses[p] /= <<>> => tx[p] \in {"committed", "rolledback"}

\* C6: a call answered 400 opened no transaction.
C6_NoTransactionBefore400 ==
    \A p \in Reqs : Sent(p, 400) => tx[p] = "none"

\* C7: a 200 response of the low-stock query for company c lists exactly the
\* joined (product, inventory, warehouse, supplier) rows of c's warehouses
\* whose quantity is below 20, each once, and total_alerts is their number.
C7_AlertsExact ==
    \A n \in 1..Len(queryResp) :
        LET r == queryResp[n] IN
        r.status = 200 =>
          /\ r.total_alerts = Len(r.alerts)
          /\ \A k \in 1..Len(r.alerts) :
               \E p \in products, i \in inventory, w \in Warehouses, s \in Suppliers :
                   /\ i.product_id = p.id /\ i.warehouse_id = w.id
                   /\ "supplier_id" \in DOMAIN p /\ p.supplier_id = s.id
                   /\ w.company_id = r.companyId
                   /\ i.quantity < 20
                   /\ r.alerts[k] = [product_id |-> p.id, product_name |-> p.name,
                                     sku |-> p.sku, warehouse_name |-> w.name,
                                     current_stock |-> i.quantity,
                                     supplier |-> [name |-> s.name,
                                                   contact_email |-> s.email]]
          /\ \A p \in products, i \in inventory, w \in Warehouses, s \in Suppliers :
               (/\ i.product_id = p.id /\ i.warehouse_id = w.id
                /\ "supplier_id" \in DOMAIN p /\ p.supplier_id = s.id
                /\ w.company_id = r.companyId
                /\ i.quantity < 20)
               => Cardinality({ k \in 1..Len(r.alerts) :
                                  /\ r.alerts[k].product_id = p.id
                                  /\ r.alerts[k].warehouse_name = w.name
                                  /\ r.alerts[k].current_stock = i.quantity }) = 1
          /\ (\A i \in inventory, w \in Warehouses :
                  i.warehouse_id = w.id => w.company_id /= r.companyId)
               => (r.alerts = <<>> /\ r.total_alerts = 0)

\* C7 witness: a 200 response with two alerts for a company whose warehouse
\* also stocks nothing else below 20, while another company's warehouse
\* holds a low quantity and some stocked quantity is exactly 20.
C7_Witness ==
    /\ queryResp /= <<>>
    /\ queryResp[1].status = 200
    /\ queryResp[1].total_alerts = 2
    /\ \E i \in inventory, w \in Warehouses :
         /\ i.warehouse_id = w.id /\ w.company_id /= queryResp[1].companyId
         /\ i.quantity < 20 /\ i.product_id \in {1, 2}
    /\ \E i \in inventory : i.quantity = 20

\* C8: every committed Inventory row has quantity >= 0.
C8_QuantityNonNegative ==
    \A i \in inventory : i.quantity >= 0

\* C9: a handler invocation that has ended has sent exactly one response.
C9_ExactlyOneResponse ==
    \A p \in Reqs : Ended(p) => Len(responses[p]) = 1

\* C10: a 200 response of the low-stock query for company c, read from the
\* store as it stands, holds an alert for every product a call answered 201
\* placed with a quantity from 0 to 19 in a warehouse of c, with current_stock
\* equal to the stored quantity.
C10_ProvisionedLowStockAlerted ==
    [][(queryResp' /= queryResp /\ queryResp'[1].status = 200) =>
         \A p \in Reqs, w \in Warehouses :
            (/\ Sent(p, 201)
             /\ QuantityOrZero(req[p]) >= 0
             /\ QuantityOrZero(req[p]) < 20
             /\ w.id = req[p].warehouse_id
             /\ w.company_id = queryResp'[1].companyId)
            => \E k \in 1..Len(queryResp'[1].alerts) :
                  /\ queryResp'[1].alerts[k].product_id = NewProductId(p)
                  /\ queryResp'[1].alerts[k].warehouse_name = w.name
                  /\ queryResp'[1].alerts[k].current_stock = QuantityOrZero(req[p])]_vars

====
